---- MODULE Spec2Model ----
(***************************************************************************)
(* Rendering pipeline of the pseudo-3D RPG: DDA raycaster                  *)
(* (src/engine/raycaster.py), frame compositor (src/engine/renderer.py),   *)
(* Mode-7 floor/ceiling projector (src/engine/mode7.py), the per-frame    *)
(* driver Game.render_3d_view (src/main.py) and the player's collision     *)
(* test (src/game/player.py).                                              *)
(*                                                                         *)
(* Numbers.  World coordinates are fixed-point integers in units of 1/Q.   *)
(* Angles are integer degrees.  cos/sin values are fixed-point integers in *)
(* units of 1/TrigScale.  Every quotient the code computes (distance,      *)
(* texture_x, fog factor) is kept as an exact fraction <<num, den>> with   *)
(* den >= 0; den = 0 encodes float('inf').  int() truncates toward zero    *)
(* and % is Python's (sign of the divisor).  Screen and world sizes are    *)
(* scaled down so that the state space is finite and small.                *)
(***************************************************************************)
EXTENDS Integers, Sequences, FiniteSets, TLC

----------------------------------------------------------------------------
(* Model resolution and program constants (src/config.py)                  *)

Q == 2                      \* world units are 1/Q
WORLD_SIZE == 6             \* World.width = World.height
SCREEN_WIDTH == 6
SCREEN_HEIGHT == 72
NUM_RAYS == SCREEN_WIDTH
FOV == 60                   \* degrees (pi / 3)
MAX_RENDER_DISTANCE == 20
HORIZON_HEIGHT == SCREEN_HEIGHT \div 2

----------------------------------------------------------------------------
(* Arithmetic helpers                                                      *)

Abs(a) == IF a < 0 THEN -a ELSE a

\* int(a / b) for b > 0: Python's int() truncates toward zero.
TruncDiv(a, b) == IF a >= 0 THEN a \div b ELSE -((-a) \div b)

\* Fractions <<num, den>>, den >= 0.
Frac(n, d) == IF d < 0 THEN <<-n, -d>> ELSE <<n, d>>
INF == <<1, 0>>
ZERO == <<0, 1>>
FLess(a, b) == a[1] * b[2] < b[1] * a[2]
FLeq(a, b) == a[1] * b[2] <= b[1] * a[2]
FEq(a, b) == a[1] * b[2] = b[1] * a[2]
IsFinite(a) == a[2] # 0

RECURSIVE GCD(_, _)
GCD(a, b) == IF b = 0 THEN a ELSE GCD(b, a % b)

\* The fraction in lowest terms.
Norm(f) ==
    LET g == GCD(Abs(f[1]), f[2])
    IN  IF g = 0 THEN f ELSE <<f[1] \div g, f[2] \div g>>

FAdd(a, b) == Norm(<<a[1] * b[2] + b[1] * a[2], a[2] * b[2]>>)

\* floor(f * t) for a fraction f >= 0 and an integer t > 0.
FloorTimes(f, t) == (f[1] \div f[2]) * t + ((f[1] % f[2]) * t) \div f[2]

\* int(f * t): truncation toward zero.
IntTimes(f, t) ==
    IF f[1] >= 0 THEN FloorTimes(f, t) ELSE -FloorTimes(<<-f[1], f[2]>>, t)

----------------------------------------------------------------------------
(* np.cos / np.sin on the model's angles                                   *)

\* sin of 0, 3, 6, ..., 90 degrees, in units of 1/1000.
SinTable == <<0, 52, 105, 156, 208, 259, 309, 358, 407, 454, 500, 545, 588,
              629, 669, 707, 743, 777, 809, 839, 866, 891, 914, 934, 951,
              966, 978, 988, 995, 999, 1000>>
TrigScale == SinTable[Len(SinTable)]
AngleStep == 90 \div (Len(SinTable) - 1)

Sin(a) ==
    LET r == a % 360
        t(b) == SinTable[(b \div AngleStep) + 1]
    IN  IF r <= 90 THEN t(r)
        ELSE IF r <= 180 THEN t(180 - r)
        ELSE IF r <= 270 THEN -t(r - 180)
        ELSE -t(360 - r)

Cos(a) == Sin(a + 90)

\* The directions rays are cast in: every 6 degrees and the four diagonals,
\* whose rays pass through grid corners.
Angles ==
    {k * 2 * AngleStep : k \in 0..((360 \div (2 * AngleStep)) - 1)}
        \cup {45 + 90 * k : k \in 0..3}

----------------------------------------------------------------------------
(* World grid (src/game/world.py)                                          *)

Cells(w, h) == (0..(w - 1)) \X (0..(h - 1))

\* World.generate_test_dungeon: outer walls of type 1, rooms of other wall
\* types inside.  The model keeps the closed border and two pillars.
map_data ==
    [c \in Cells(WORLD_SIZE, WORLD_SIZE) |->
        IF c[1] = 0 \/ c[2] = 0 \/ c[1] = WORLD_SIZE - 1 \/ c[2] = WORLD_SIZE - 1
        THEN 1
        ELSE IF c = <<4, 3>> THEN 2
        ELSE IF c = <<1, 1>> THEN 3
        ELSE 0]

\* Grids without a closed border, for rays that leave the grid.
EmptyGrid == [c \in Cells(WORLD_SIZE, WORLD_SIZE) |-> 0]
PillarGrid == [c \in Cells(WORLD_SIZE, WORLD_SIZE) |-> IF c = <<2, 2>> THEN 4 ELSE 0]

InBounds(mx, my, w, h) == mx >= 0 /\ mx < w /\ my >= 0 /\ my < h

----------------------------------------------------------------------------
(* fast_dda (src/engine/raycaster.py)                                      *)

\* 1e30, the step delta of a ray with a zero direction component, scaled:
\* larger than every side distance a ray inside the model's grids reaches.
DELTA_INF == 10000

\* Variant: the zero-component delta is 1 instead of 1e30.
DeltaDistSmall(d) == IF d = 0 THEN <<1, 1>> ELSE <<TrigScale, Abs(d)>>

\* delta_dist as a fraction.
DeltaDist(d) == IF d = 0 THEN <<DELTA_INF, 1>> ELSE <<TrigScale, Abs(d)>>

\* State before the loop.  side_dist_x = (ax / Q) * delta_dist_x, and the
\* same for y; the loop adds Q to ax for "side_dist_x += delta_dist_x".
\* read records the index of the world_array element the last iteration
\* read, <<>> when it read none; steps counts the iterations made.
DDASetup(x, y, dx, dy) ==
    LET mx == TruncDiv(x, Q)
        my == TruncDiv(y, Q)
    IN  [x |-> x, y |-> y, dx |-> dx, dy |-> dy,
         map_x |-> mx, map_y |-> my,
         step_x |-> IF dx < 0 THEN -1 ELSE 1,
         step_y |-> IF dy < 0 THEN -1 ELSE 1,
         ax |-> IF dx < 0 THEN x - mx * Q ELSE mx * Q + Q - x,
         ay |-> IF dy < 0 THEN y - my * Q ELSE my * Q + Q - y,
         hit |-> FALSE, side |-> 0, texture_id |-> 0, read |-> <<>>,
         steps |-> 0]

\* Variant: the comparison is side_dist_x <= side_dist_y, so that a tie
\* takes the X step.
SideDistLessOrEqual(st) ==
    LET ddx == DeltaDist(st.dx)
        ddy == DeltaDist(st.dy)
    IN  st.ax * ddx[1] * ddy[2] <= st.ay * ddy[1] * ddx[2]

\* side_dist_x < side_dist_y
SideDistLess(st) ==
    LET ddx == DeltaDist(st.dx)
        ddy == DeltaDist(st.dy)
    IN  st.ax * ddx[1] * ddy[2] < st.ay * ddy[1] * ddx[2]

\* Variant: no bounds test; the array is indexed with the stepped cell, the
\* index wrapping around as a negative NumPy index does, and the ray ends
\* outside the grid with the texture id found there.
DDAStepUnchecked(st, grid, w, h) ==
    LET moved == IF SideDistLess(st)
                 THEN [st EXCEPT !.ax = @ + Q, !.map_x = @ + st.step_x, !.side = 0,
                                 !.steps = @ + 1]
                 ELSE [st EXCEPT !.ay = @ + Q, !.map_y = @ + st.step_y, !.side = 1,
                                 !.steps = @ + 1]
        cell == grid[<<moved.map_x % w, moved.map_y % h>>]
        seen == [moved EXCEPT !.read = <<moved.map_x, moved.map_y>>]
    IN  IF cell > 0 \/ ~InBounds(moved.map_x, moved.map_y, w, h)
        THEN [seen EXCEPT !.hit = TRUE, !.texture_id = cell]
        ELSE [seen EXCEPT !.texture_id = 0]

\* Variant: on a tie both coordinates are stepped at once, so the ray cuts
\* through the grid corner into the diagonal neighbour.
DDAStepCornerCut(st, grid, w, h) ==
    LET ddx == DeltaDist(st.dx)
        ddy == DeltaDist(st.dy)
        tie == st.ax * ddx[1] * ddy[2] = st.ay * ddy[1] * ddx[2]
        moved == IF tie
                 THEN [st EXCEPT !.ax = @ + Q, !.map_x = @ + st.step_x,
                                 !.ay = @ + Q, !.map_y = @ + st.step_y,
                                 !.side = 1, !.steps = @ + 1]
                 ELSE IF SideDistLess(st)
                 THEN [st EXCEPT !.ax = @ + Q, !.map_x = @ + st.step_x, !.side = 0,
                                 !.steps = @ + 1]
                 ELSE [st EXCEPT !.ay = @ + Q, !.map_y = @ + st.step_y, !.side = 1,
                                 !.steps = @ + 1]
        seen == [moved EXCEPT !.read = <<moved.map_x, moved.map_y>>]
    IN  IF ~InBounds(moved.map_x, moved.map_y, w, h)
        THEN [moved EXCEPT !.hit = TRUE, !.texture_id = 1, !.read = <<>>]
        ELSE IF grid[<<moved.map_x, moved.map_y>>] > 0
        THEN [seen EXCEPT !.hit = TRUE,
                          !.texture_id = grid[<<moved.map_x, moved.map_y>>]]
        ELSE [seen EXCEPT !.texture_id = 0]

\* Variant: a cell outside the grid is not a hit; the ray goes on as
\* through an empty cell.
DDAStepOpenBorder(st, grid, w, h) ==
    LET moved == IF SideDistLess(st)
                 THEN [st EXCEPT !.ax = @ + Q, !.map_x = @ + st.step_x, !.side = 0,
                                 !.steps = @ + 1]
                 ELSE [st EXCEPT !.ay = @ + Q, !.map_y = @ + st.step_y, !.side = 1,
                                 !.steps = @ + 1]
        seen == [moved EXCEPT !.read = <<moved.map_x, moved.map_y>>]
    IN  IF ~InBounds(moved.map_x, moved.map_y, w, h)
        THEN [moved EXCEPT !.texture_id = 0, !.read = <<>>]
        ELSE IF grid[<<moved.map_x, moved.map_y>>] > 0
        THEN [seen EXCEPT !.hit = TRUE,
                          !.texture_id = grid[<<moved.map_x, moved.map_y>>]]
        ELSE [seen EXCEPT !.texture_id = 0]

\* One iteration of "while not hit".
DDAStep(st, grid, w, h) ==
    LET moved == IF SideDistLess(st)
                 THEN [st EXCEPT !.ax = @ + Q, !.map_x = @ + st.step_x, !.side = 0,
                                 !.steps = @ + 1]
                 ELSE [st EXCEPT !.ay = @ + Q, !.map_y = @ + st.step_y, !.side = 1,
                                 !.steps = @ + 1]
        seen == [moved EXCEPT !.read = <<moved.map_x, moved.map_y>>]
    IN  IF ~InBounds(moved.map_x, moved.map_y, w, h)
        THEN [moved EXCEPT !.hit = TRUE, !.texture_id = 1, !.read = <<>>]
        ELSE IF grid[<<moved.map_x, moved.map_y>>] > 0
        THEN [seen EXCEPT !.hit = TRUE,
                          !.texture_id = grid[<<moved.map_x, moved.map_y>>]]
        ELSE [seen EXCEPT !.texture_id = 0]

RECURSIVE DDALoop(_, _, _, _)
DDALoop(st, grid, w, h) ==
    IF st.hit THEN st ELSE DDALoop(DDAStep(st, grid, w, h), grid, w, h)

\* Variant: perp_wall_dist without the (1 - step) / 2 face offset.
DDAResultNoOffset(st) ==
    LET n == IF st.side = 0 THEN st.map_x * Q - st.x ELSE st.map_y * Q - st.y
        d == IF st.side = 0 THEN st.dx ELSE st.dy
        o == IF st.side = 0 THEN st.dy ELSE st.dx
        c == IF st.side = 0 THEN st.y ELSE st.x
        perp_wall_dist == Frac(n * TrigScale, Q * d)
        wall == Frac(c * d + n * o, Q * d)
        wall_x == IF d = 0 THEN wall
                  ELSE <<wall[1] - TruncDiv(wall[1], wall[2]) * wall[2], wall[2]>>
    IN  [hit |-> st.hit, distance |-> perp_wall_dist,
         texture_id |-> st.texture_id, texture_x |-> wall_x,
         side |-> st.side, map_x |-> st.map_x, map_y |-> st.map_y,
         err |-> (d = 0)]

\* Variant: wall_x without "wall_x -= int(wall_x)".
DDAResultWholeCoordinate(st) ==
    LET n == IF st.side = 0
             THEN st.map_x * Q - st.x + (IF st.step_x = -1 THEN Q ELSE 0)
             ELSE st.map_y * Q - st.y + (IF st.step_y = -1 THEN Q ELSE 0)
        d == IF st.side = 0 THEN st.dx ELSE st.dy
        o == IF st.side = 0 THEN st.dy ELSE st.dx
        c == IF st.side = 0 THEN st.y ELSE st.x
    IN  [hit |-> st.hit, distance |-> Frac(n * TrigScale, Q * d),
         texture_id |-> st.texture_id, texture_x |-> Frac(c * d + n * o, Q * d),
         side |-> st.side, map_x |-> st.map_x, map_y |-> st.map_y,
         err |-> (d = 0)]

\* perp_wall_dist, wall_x and the returned tuple.  err is TRUE when the
\* division is by a zero direction component (ZeroDivisionError).
DDAResult(st) ==
    LET n == IF st.side = 0
             THEN st.map_x * Q - st.x + (IF st.step_x = -1 THEN Q ELSE 0)
             ELSE st.map_y * Q - st.y + (IF st.step_y = -1 THEN Q ELSE 0)
        d == IF st.side = 0 THEN st.dx ELSE st.dy
        o == IF st.side = 0 THEN st.dy ELSE st.dx
        c == IF st.side = 0 THEN st.y ELSE st.x
        perp_wall_dist == Frac(n * TrigScale, Q * d)
        wall == Frac(c * d + n * o, Q * d)
        wall_x == IF d = 0 THEN wall
                  ELSE <<wall[1] - TruncDiv(wall[1], wall[2]) * wall[2], wall[2]>>
    IN  [hit |-> st.hit, distance |-> perp_wall_dist,
         texture_id |-> st.texture_id, texture_x |-> wall_x,
         side |-> st.side, map_x |-> st.map_x, map_y |-> st.map_y,
         err |-> (d = 0)]

fast_dda(start_x, start_y, dx, dy, world_array, world_width, world_height) ==
    DDAResult(DDALoop(DDASetup(start_x, start_y, dx, dy),
                      world_array, world_width, world_height))

\* Variant: a cell outside the grid reads as empty.
get_cell_open(world, x, y, w, h) ==
    IF InBounds(x, y, w, h) THEN world[<<x, y>>] ELSE 0

\* World.get_cell: the cell's code, 1 outside the grid.
get_cell(world, x, y, w, h) ==
    IF InBounds(x, y, w, h) THEN world[<<x, y>>] ELSE 1

\* dda_raycast: delta_dist, float('inf') for a zero direction component.
RaycastDeltaDist(d) == IF d = 0 THEN INF ELSE <<TrigScale, Abs(d)>>

\* dda_raycast: side_dist_x < side_dist_y, with side_dist = (a / Q) * delta
\* as a fraction; a positive multiple of inf is inf, 0 * inf is <<0, 0>>
\* (NaN), and FLess is false on it as a float comparison is.
RaycastSideDistLess(st) ==
    LET ddx == RaycastDeltaDist(st.dx)
        ddy == RaycastDeltaDist(st.dy)
    IN  FLess(<<st.ax * ddx[1], Q * ddx[2]>>, <<st.ay * ddy[1], Q * ddy[2]>>)

\* dda_raycast: one iteration of "while not hit".
RaycastStep(st, world, w, h) ==
    LET moved == IF RaycastSideDistLess(st)
                 THEN [st EXCEPT !.ax = @ + Q, !.map_x = @ + st.step_x,
                                 !.side = 0, !.steps = @ + 1]
                 ELSE [st EXCEPT !.ay = @ + Q, !.map_y = @ + st.step_y,
                                 !.side = 1, !.steps = @ + 1]
    IN  IF \/ moved.map_x < 0 \/ moved.map_x >= w
           \/ moved.map_y < 0 \/ moved.map_y >= h
           \/ get_cell(world, moved.map_x, moved.map_y, w, h) > 0
        THEN [moved EXCEPT !.hit = TRUE]
        ELSE moved

RECURSIVE RaycastLoop(_, _, _, _)
RaycastLoop(st, world, w, h) ==
    IF st.hit THEN st ELSE RaycastLoop(RaycastStep(st, world, w, h), world, w, h)

\* RayCaster.dda_raycast: the setup is that of fast_dda apart from the
\* deltas; distance, wall_x and the returned dictionary follow the loop.
dda_raycast(start_x, start_y, dx, dy, world, w, h) ==
    LET st == RaycastLoop(DDASetup(start_x, start_y, dx, dy), world, w, h)
        n == IF st.side = 0
             THEN st.map_x * Q - st.x + (IF st.step_x = -1 THEN Q ELSE 0)
             ELSE st.map_y * Q - st.y + (IF st.step_y = -1 THEN Q ELSE 0)
        d == IF st.side = 0 THEN st.dx ELSE st.dy
        o == IF st.side = 0 THEN st.dy ELSE st.dx
        c == IF st.side = 0 THEN st.y ELSE st.x
        perp_wall_dist == Frac(n * TrigScale, Q * d)
        wall == Frac(c * d + n * o, Q * d)
        wall_x == IF d = 0 THEN wall
                  ELSE <<wall[1] - TruncDiv(wall[1], wall[2]) * wall[2], wall[2]>>
        texture_id == IF st.hit THEN get_cell(world, st.map_x, st.map_y, w, h)
                      ELSE 0
    IN  [hit |-> st.hit, distance |-> perp_wall_dist,
         texture_id |-> texture_id, texture_x |-> wall_x,
         side |-> st.side, map_x |-> st.map_x, map_y |-> st.map_y,
         err |-> (d = 0)]

----------------------------------------------------------------------------
(* RayCaster (src/engine/raycaster.py)                                     *)

\* RayCaster.__init__: np.linspace(-FOV / 2, FOV / 2, NUM_RAYS)[i]
ray_angles(i) == (i * FOV) \div (NUM_RAYS - 1) - FOV \div 2

\* Variant: the ray angle normalised into [0, 360), as cast_single_ray does.
RayAngleNormalised(player_angle, i) == (player_angle + ray_angles(i)) % 360

\* ray_angle = player_angle + self.ray_angles[i]
RayAngle(player_angle, i) == player_angle + ray_angles(i)

\* RayCaster.cast_rays; the field angle records the local ray_angle.
cast_rays(player_x, player_y, player_angle, world_array) ==
    [i \in 0..(NUM_RAYS - 1) |->
        LET ray_angle == RayAngle(player_angle, i)
            r == fast_dda(player_x, player_y, Cos(ray_angle), Sin(ray_angle),
                          world_array, WORLD_SIZE, WORLD_SIZE)
        IN  [hit |-> r.hit, distance |-> r.distance,
             texture_id |-> r.texture_id, texture_x |-> r.texture_x,
             side |-> r.side, map_x |-> r.map_x, map_y |-> r.map_y,
             err |-> r.err, angle |-> ray_angle]]

----------------------------------------------------------------------------
(* Player collision (src/game/player.py)                                   *)

\* PLAYER_RADIUS = 0.3 as the fraction 3/10.
PLAYER_RADIUS == <<3, 10>>

\* int(c + sgn * PLAYER_RADIUS) for a coordinate c in 1/Q units.
CornerCell(c, sgn) ==
    TruncDiv(c * PLAYER_RADIUS[2] + sgn * PLAYER_RADIUS[1] * Q, PLAYER_RADIUS[2] * Q)

can_move_to(x, y, world_array) ==
    \A sx \in {-1, 1}, sy \in {-1, 1} :
        LET map_x == CornerCell(x, sx)
            map_y == CornerCell(y, sy)
        IN  ~(\/ ~InBounds(map_x, map_y, WORLD_SIZE, WORLD_SIZE)
              \/ world_array[<<map_x, map_y>>] > 0)

\* Player.check_collision: the X move is tried at the old y, the Y move at
\* the x that results; the position returned.
check_collision(x, y, new_x, new_y, world_array) ==
    LET final_x == IF can_move_to(new_x, y, world_array) THEN new_x ELSE x
        final_y == IF can_move_to(final_x, new_y, world_array) THEN new_y ELSE y
    IN  <<final_x, final_y>>

----------------------------------------------------------------------------
(* Renderer (src/engine/renderer.py)                                       *)

Columns == 0..(SCREEN_WIDTH - 1)

\* One entry of the frame's draw log.  kind is "sky", "floor", "ceiling",
\* "wall", "sprite", "weapon" or "effects"; id is the column of a wall slice
\* or the sprite; [left, right) is the horizontal extent; depth is the
\* distance of a wall slice or the sprite_y of a sprite; dist2 is the squared
\* camera distance of a sprite in (1/Q)^2 units; tested says that the sprite
\* reached is_sprite_visible; blit says that pixels were written.
Event(kind, pass, id, left, right, depth, dist2, tested, blit) ==
    [kind |-> kind, pass |-> pass, id |-> id, left |-> left, right |-> right,
     depth |-> depth, dist2 |-> dist2, tested |-> tested, blit |-> blit]

PlainEvent(kind) == Event(kind, 0, 0, 0, SCREEN_WIDTH, ZERO, 0, FALSE, TRUE)

\* Renderer.render_wall_slice: the value stored in z_buffer[x].
render_wall_slice(x, ray) ==
    IF FEq(ray.distance, ZERO) THEN <<1, 1000>> ELSE ray.distance

\* The guard of the loop in render_walls: ray['hit'] and distance > 0.001.
SliceDrawn(ray) == ray.hit /\ FLess(<<1, 1000>>, ray.distance)

\* Variant: the buffer keeps the minimum of its old and new entries, as
\* update_z_buffer_vectorized does.
render_walls_minimum(rays_, zb) ==
    [c \in Columns |->
        LET d == IF rays_[c].hit THEN rays_[c].distance ELSE INF
        IN  IF FLess(zb[c], d) THEN zb[c] ELSE d]

\* Renderer.render_walls: the new z_buffer.
render_walls(rays_, zb) ==
    [c \in Columns |->
        IF SliceDrawn(rays_[c]) THEN render_wall_slice(c, rays_[c])
        ELSE IF rays_[c].hit THEN rays_[c].distance ELSE INF]

\* The wall slices render_walls draws, in column order.
RECURSIVE WallEvents(_, _)
WallEvents(rays_, c) ==
    IF c >= SCREEN_WIDTH THEN <<>>
    ELSE (IF SliceDrawn(rays_[c])
          THEN <<Event("wall", 0, c, c, c + 1, rays_[c].distance, 0, FALSE, TRUE)>>
          ELSE <<>>) \o WallEvents(rays_, c + 1)

\* Variant: one colour for every texture id.
get_wall_color_single(texture_id) == <<100, 100, 100>>

\* Renderer.get_wall_color
get_wall_color(texture_id) ==
    CASE texture_id = 1 -> <<128, 128, 128>>
      [] texture_id = 2 -> <<139, 69, 19>>
      [] texture_id = 3 -> <<105, 105, 105>>
      [] texture_id = 4 -> <<160, 82, 45>>
      [] OTHER -> <<100, 100, 100>>

\* Renderer.render_wall_slice: what the call draws in column x.  textures is
\* the set of ids for which asset_manager.get_texture returns a texture;
\* color is the flat colour of the untextured path, <<>> on the textured one.
wall_slice(x, ray, textures) ==
    LET distance == render_wall_slice(x, ray)
        wall_height == TruncDiv(SCREEN_HEIGHT * distance[2], distance[1])
        top == (SCREEN_HEIGHT - wall_height) \div 2
        bottom == (SCREEN_HEIGHT + wall_height) \div 2
        textured == ray.texture_id \in textures
    IN  [x |-> x, texture_id |-> ray.texture_id, distance |-> distance,
         wall_height |-> wall_height,
         wall_start |-> IF top > 0 THEN top ELSE 0,
         wall_end |-> IF bottom < SCREEN_HEIGHT THEN bottom ELSE SCREEN_HEIGHT,
         textured |-> textured,
         color |-> IF textured THEN <<>> ELSE get_wall_color(ray.texture_id)]

\* The render_wall_slice calls of render_walls, in column order.
RECURSIVE wall_slices(_, _, _)
wall_slices(rays_, textures, c) ==
    IF c >= SCREEN_WIDTH THEN <<>>
    ELSE (IF SliceDrawn(rays_[c])
          THEN <<wall_slice(c, rays_[c], textures)>>
          ELSE <<>>) \o wall_slices(rays_, textures, c + 1)

\* Variant: np.all instead of np.any.
is_sprite_visible_all(left, right, depth, zb) ==
    LET start_x == IF left > 0 THEN left ELSE 0
        end_x == IF right < SCREEN_WIDTH THEN right ELSE SCREEN_WIDTH
    IN  IF start_x >= end_x \/ end_x > SCREEN_WIDTH
        THEN FALSE
        ELSE \A c \in start_x..(end_x - 1) : FLess(depth, zb[c])

\* Variant: the rectangle is not clamped to the screen; a column outside the
\* depth buffer counts as unoccluded.
is_sprite_visible_unclamped(left, right, depth, zb) ==
    \E c \in left..(right - 1) : c \in Columns => FLess(depth, zb[c])

\* Renderer.is_sprite_visible
is_sprite_visible(left, right, depth, zb) ==
    LET start_x == IF left > 0 THEN left ELSE 0
        end_x == IF right < SCREEN_WIDTH THEN right ELSE SCREEN_WIDTH
    IN  IF start_x >= end_x \/ end_x > SCREEN_WIDTH
        THEN FALSE
        ELSE \E c \in start_x..(end_x - 1) : FLess(depth, zb[c])

\* Squared distance camera-sprite, in (1/Q)^2 units; np.sqrt is monotone,
\* so the order of the distances is the order of their squares.
Dist2(s, player_x, player_y) ==
    (s.x - player_x) * (s.x - player_x) + (s.y - player_y) * (s.y - player_y)

\* Variant: the near-plane test is sprite_y <= 0 instead of sprite_y <= 0.1.
render_sprite_behind_only(id, s, player_x, player_y, player_angle, zb, pass) ==
    LET dist2 == Dist2(s, player_x, player_y)
        dx == s.x - player_x
        dy == s.y - player_y
        cos_a == Cos(-player_angle)
        sin_a == Sin(-player_angle)
        sprite_x == dx * cos_a - dy * sin_a
        sprite_y == dx * sin_a + dy * cos_a
        depth == <<sprite_y, Q * TrigScale>>
        tanNum == Sin(FOV \div 2)
        tanDen == Cos(FOV \div 2)
        screen_x == TruncDiv(SCREEN_WIDTH * sprite_y * tanNum
                               + sprite_x * SCREEN_WIDTH * tanDen,
                             2 * sprite_y * tanNum)
        sprite_size == TruncDiv(SCREEN_HEIGHT * Q * TrigScale, sprite_y)
        left == screen_x - (sprite_size \div 2)
        right == left + sprite_size
        culled == Event("sprite", pass, id, 0, 0, depth, dist2, FALSE, FALSE)
    IN  IF dist2 > MAX_RENDER_DISTANCE * MAX_RENDER_DISTANCE * Q * Q THEN culled
        ELSE IF sprite_y <= 0 THEN culled
        ELSE IF screen_x < -sprite_size \/ screen_x > SCREEN_WIDTH + sprite_size
        THEN culled
        ELSE Event("sprite", pass, id, left, right, depth, dist2, TRUE,
                   is_sprite_visible(left, right, depth, zb))

\* Renderer.render_sprite (textured and fallback path share the rectangle
\* and the visibility gate).  Returns the log entry of the call.
render_sprite(id, s, player_x, player_y, player_angle, zb, pass) ==
    LET dist2 == Dist2(s, player_x, player_y)
        dx == s.x - player_x
        dy == s.y - player_y
        cos_a == Cos(-player_angle)
        sin_a == Sin(-player_angle)
        sprite_x == dx * cos_a - dy * sin_a          \* units 1/(Q*TrigScale)
        sprite_y == dx * sin_a + dy * cos_a
        depth == <<sprite_y, Q * TrigScale>>
        tanNum == Sin(FOV \div 2)
        tanDen == Cos(FOV \div 2)
        screen_x == TruncDiv(SCREEN_WIDTH * sprite_y * tanNum
                               + sprite_x * SCREEN_WIDTH * tanDen,
                             2 * sprite_y * tanNum)
        sprite_size == TruncDiv(SCREEN_HEIGHT * Q * TrigScale, sprite_y)
        left == screen_x - (sprite_size \div 2)
        right == left + sprite_size
        culled == Event("sprite", pass, id, 0, 0, depth, dist2, FALSE, FALSE)
    IN  IF dist2 > MAX_RENDER_DISTANCE * MAX_RENDER_DISTANCE * Q * Q THEN culled
        ELSE IF sprite_y * 10 <= Q * TrigScale THEN culled
        ELSE IF screen_x < -sprite_size \/ screen_x > SCREEN_WIDTH + sprite_size
        THEN culled
        ELSE Event("sprite", pass, id, left, right, depth, dist2, TRUE,
                   is_sprite_visible(left, right, depth, zb))

\* sprite_distances.sort(key=distance, reverse=True): stable, farthest first.
RECURSIVE InsertDesc(_, _, _)
InsertDesc(e, key, sorted) ==
    IF sorted = <<>> THEN <<e>>
    ELSE IF key[Head(sorted)] >= key[e]
         THEN <<Head(sorted)>> \o InsertDesc(e, key, Tail(sorted))
         ELSE <<e>> \o sorted

\* Variant: the list is drawn unsorted.
SortNone(ids, key) == ids

RECURSIVE SortDesc(_, _)
SortDesc(ids, key) ==
    IF ids = <<>> THEN <<>>
    ELSE InsertDesc(ids[Len(ids)], key, SortDesc(SubSeq(ids, 1, Len(ids) - 1), key))

\* Renderer.render_sprites: the log entries of the render_sprite calls, in
\* call order.  ids is the sprite list, sp the sprites' fields.
render_sprites(ids, sp, player_x, player_y, player_angle, zb, pass) ==
    LET key == [i \in DOMAIN sp |-> Dist2(sp[i], player_x, player_y)]
        order == SortDesc(ids, key)
    IN  [k \in 1..Len(order) |->
            render_sprite(order[k], sp[order[k]], player_x, player_y,
                          player_angle, zb, pass)]

\* Variant: a blitted sprite writes its depth into the buffer at the columns
\* it covers in front of the wall, as a per-column depth test would.
sprite_pass_z_buffer_written(zb, events) ==
    [c \in Columns |->
        IF \E k \in 1..Len(events) :
              /\ events[k].blit
              /\ events[k].left <= c /\ c < events[k].right
              /\ FLess(events[k].depth, zb[c])
        THEN ZERO
        ELSE zb[c]]

\* self.z_buffer after a render_sprites call that made the render_sprite
\* calls logged in events: render_sprites, render_sprite,
\* render_sprite_fallback and is_sprite_visible only read the buffer.
sprite_pass_z_buffer(zb, events) == zb

----------------------------------------------------------------------------
(* Mode-7 projector (src/engine/mode7.py)                                  *)

FLOOR_TEXTURE_SIZE == 64

\* Textures the model samples: "checker" is the pattern of
\* create_default_floor_texture without its noise, "white" is uniform,
\* "stone" is the base gray of create_default_ceiling_texture without its
\* variation.
Textures == {"checker", "white"}
Texel(tex, tx, tz) ==
    IF tex = "white" THEN <<255, 255, 255>>
    ELSE IF tex = "stone" THEN <<80, 80, 80>>
    ELSE IF ((tx \div 8) + (tz \div 8)) % 2 = 1 THEN <<120, 80, 40>>
    ELSE <<100, 70, 35>>

FLOOR_COLOR == <<101, 67, 33>>
CEILING_COLOR == <<64, 64, 64>>

\* Variant: a missing texture is passed on as it is.
PlaneTextureUnchecked(tex, is_ceiling) == tex

\* render_floor_ceiling: the texture handed to render_horizontal_surface;
\* tex = "none" stands for asset_manager.get_texture returning None.
PlaneTexture(tex, is_ceiling) ==
    IF tex = "none" THEN (IF is_ceiling THEN "stone" ELSE "checker") ELSE tex

\* int(final * size) % size, then the clamp into [0, size - 1].
TexCoord(final, size) ==
    LET t == IntTimes(final, size) % size
        lo == IF t < size - 1 THEN t ELSE size - 1
    IN  IF lo > 0 THEN lo ELSE 0

\* Variant: fog without the 0.2 floor.
FogFactorNoFloor(pos_z) ==
    <<MAX_RENDER_DISTANCE * pos_z[2] - pos_z[1], MAX_RENDER_DISTANCE * pos_z[2]>>

\* fog_factor = max(0.2, 1.0 - distance / max_render_distance)
FogFactor(pos_z) ==
    LET f == <<MAX_RENDER_DISTANCE * pos_z[2] - pos_z[1],
               MAX_RENDER_DISTANCE * pos_z[2]>>
    IN  IF FLess(f, <<1, 5>>) THEN <<1, 5>> ELSE f

\* int(color * fog_factor) per channel.
Fogged(color, fog) ==
    [ch \in 1..3 |-> TruncDiv(color[ch] * fog[1], fog[2])]

\* One destination pixel (x, y) of the half-height surface: the body of the
\* loops of optimized_mode7_render_numpy (fallback = FALSE) and of
\* render_fallback_mode7 (fallback = TRUE).  player_x, player_y are
\* fractions.  written = FALSE when the loop skips the pixel ("continue"),
\* which leaves it black.
Mode7Pixel(x, y, player_x, player_y, player_angle, tex, fallback) ==
    LET p == SCREEN_HEIGHT \div 2
        screen_y == HORIZON_HEIGHT + y
        skipped == screen_y >= SCREEN_HEIGHT \/ (~fallback /\ screen_y = p)
        pos_z == IF Abs(screen_y - p) > 0 THEN Frac(p, screen_y - p)
                 ELSE <<1, 1000>>
        hw == SCREEN_WIDTH \div 2
        screen_x == x - hw
        cos_a == Cos(player_angle)
        sin_a == Sin(player_angle)
        rotated_x == Norm(<<pos_z[1] * (screen_x * cos_a - hw * sin_a),
                            pos_z[2] * hw * TrigScale>>)
        rotated_z == Norm(<<pos_z[1] * (screen_x * sin_a + hw * cos_a),
                            pos_z[2] * hw * TrigScale>>)
        final_x == FAdd(rotated_x, player_x)
        final_z == FAdd(rotated_z, player_y)
        tex_x == TexCoord(final_x, FLOOR_TEXTURE_SIZE)
        tex_z == TexCoord(final_z, FLOOR_TEXTURE_SIZE)
        color == Texel(tex, tex_x, tex_z)
        fog_factor == FogFactor(pos_z)
    IN  IF skipped
        THEN [written |-> FALSE, pos_z |-> pos_z, final_x |-> ZERO,
              final_z |-> ZERO, tex_x |-> 0, tex_z |-> 0,
              color |-> <<0, 0, 0>>, fog |-> <<1, 1>>, out |-> <<0, 0, 0>>]
        ELSE [written |-> TRUE, pos_z |-> pos_z, final_x |-> final_x,
              final_z |-> final_z, tex_x |-> tex_x, tex_z |-> tex_z,
              color |-> color, fog |-> fog_factor,
              out |-> Fogged(color, fog_factor)]

\* The pixel as render_horizontal_surface leaves it: in the fallback
\* renderer a texel read that raises IndexError / ValueError sets the pixel
\* to the flat colour of the plane.
PlanePixel(x, y, px, py, angle, texture, fallback, raises, is_ceiling) ==
    LET pix == Mode7Pixel(x, y, px, py, angle, texture, fallback)
    IN  IF fallback /\ raises /\ pix.written
        THEN [pix EXCEPT !.out = IF is_ceiling THEN CEILING_COLOR ELSE FLOOR_COLOR]
        ELSE pix

----------------------------------------------------------------------------
(* State                                                                   *)

VARIABLES
    player,      \* Player: [x, y, angle]
    sprites,     \* enemies and NPCs: id -> [x, y, alive]
    z_buffer,    \* Renderer.z_buffer: column -> fraction
    rays,        \* the ray list of the last cast_rays call (<<>> before)
    pc,          \* position of the frame loop (Game.run)
    drawn,       \* draw log of the current frame, in drawing order
    dda,         \* locals of one fast_dda call
    ddaGrid,     \* its world_array
    ddaPc,       \* "loop" inside "while not hit", "done" after return
    ddaRes,      \* its return value
    m7,          \* one Mode-7 rendering: camera, texture, two destination
                 \* pixels a and b and what was written to them
    m7Pc,        \* "start" before, "done" after render_horizontal_surface
    wl,          \* one wall pass: camera, world_array, bound texture ids,
                 \* rays, depth buffer and the wall slices drawn
    wlPc,        \* "cast" before cast_rays, "render" before render_walls,
                 \* "done" after it
    vis,         \* one is_sprite_visible call: rectangle, depth, depth
                 \* buffer and the value returned
    visPc,       \* "call" before, "done" after is_sprite_visible
    mv,          \* a player walking a grid: position, world and the last
                 \* update_movement call (position before, position asked)
    mvPc         \* "play" while update_movement calls are made

frameVars == <<player, sprites, z_buffer, rays, pc, drawn>>
ddaVars == <<dda, ddaGrid, ddaPc, ddaRes>>
m7Vars == <<m7, m7Pc>>
wallVars == <<wl, wlPc>>
visVars == <<vis, visPc>>
moveVars == <<mv, mvPc>>
vars == <<player, sprites, z_buffer, rays, pc, drawn, dda, ddaGrid, ddaPc, ddaRes,
          m7, m7Pc, wl, wlPc, vis, visPc, mv, mvPc>>

NoRay == [hit |-> FALSE, distance |-> ZERO, texture_id |-> 0, texture_x |-> ZERO,
          side |-> 0, map_x |-> 0, map_y |-> 0, err |-> FALSE]

ddaIdle ==
    /\ dda = DDASetup(0, 0, TrigScale, 0)
    /\ ddaGrid = EmptyGrid
    /\ ddaPc = "idle"
    /\ ddaRes = NoRay

NoPixel == [written |-> FALSE, pos_z |-> ZERO, final_x |-> ZERO, final_z |-> ZERO,
            tex_x |-> 0, tex_z |-> 0, color |-> <<0, 0, 0>>, fog |-> <<1, 1>>,
            out |-> <<0, 0, 0>>]

m7Idle ==
    /\ m7 = [player_x |-> ZERO, player_y |-> ZERO, angle |-> 0, tex |-> "white",
             fails |-> FALSE, raises |-> FALSE, is_ceiling |-> FALSE,
             x |-> 0, y |-> 0, n |-> 0, y2 |-> 0,
             a |-> NoPixel, b |-> NoPixel]
    /\ m7Pc = "idle"

wallIdle ==
    /\ wl = [x |-> 0, y |-> 0, angle |-> 0, world |-> EmptyGrid, textures |-> {},
             rays |-> <<>>, z_buffer |-> [c \in Columns |-> ZERO],
             slices |-> <<>>]
    /\ wlPc = "idle"

visIdle ==
    /\ vis = [left |-> 0, right |-> 0, depth |-> ZERO,
              zb |-> [c \in Columns |-> ZERO], result |-> FALSE]
    /\ visPc = "idle"

moveIdle ==
    /\ mv = [x |-> 0, y |-> 0, world |-> EmptyGrid, old_x |-> 0, old_y |-> 0,
              new_x |-> 0, new_y |-> 0]
    /\ mvPc = "idle"

----------------------------------------------------------------------------
(* The frame loop: Game.run -> Game.update, Game.render_3d_view            *)

Enemies == <<1, 2>>          \* EnemyManager.enemies, in list order
Npcs == <<3>>                \* NPCManager.npcs
SpriteIds == {1, 2, 3}

\* Cell centre of cell <<cx, cy>> shifted by <<ox, oy>> / Q.
At(cx, cy, ox, oy) == <<cx * Q + ox, cy * Q + oy>>

\* Positions the model lets each sprite take.
SpritePositions(id) ==
    IF id = 1 THEN {At(1, 3, 1, 1), At(3, 4, 1, 1), At(4, 1, 1, 0)}
    ELSE IF id = 2 THEN {At(2, 1, 1, 1), At(4, 4, 0, 1)}
    ELSE {At(1, 4, 1, 1)}

SpriteStates(id) ==
    {[x |-> p[1], y |-> p[2], alive |-> b] : p \in SpritePositions(id), b \in BOOLEAN}
SpriteConfigs ==
    {<<s1, s2, s3>> : s1 \in SpriteStates(1), s2 \in SpriteStates(2),
                      s3 \in SpriteStates(3)}

\* Poses the model lets the player take: around the spawn point, every
\* position Player.can_move_to accepts.
CamPositions ==
    {p \in ((2 * Q + 1)..(3 * Q + 1)) \X ((2 * Q + 1)..(3 * Q + 1)) :
        can_move_to(p[1], p[2], map_data)}
CamAngles == {0, 30, 90, 180, 270, 342}

\* World.spawn_x, World.spawn_y
Spawn == <<(WORLD_SIZE \div 2) * Q, (WORLD_SIZE \div 2) * Q>>

FrameInit ==
    /\ player = [x |-> Spawn[1], y |-> Spawn[2], angle |-> 0]
    /\ sprites \in {sp \in SpriteConfigs : \A i \in SpriteIds : sp[i].alive}
    /\ z_buffer = [c \in Columns |-> ZERO]        \* np.zeros(SCREEN_WIDTH)
    /\ rays = <<>>
    /\ pc = "update"
    /\ drawn = <<>>

Init == FrameInit /\ ddaIdle /\ m7Idle /\ wallIdle /\ visIdle /\ moveIdle

\* Variant: the sprite passes run before the wall pass.
FrameOrderSpritesFirst ==
    <<"update", "fill", "floor", "cast", "sprites1", "sprites2", "walls",
      "weapon", "effects">>

\* Game.run / Game.render_3d_view: the steps of one frame, in program order.
FrameOrder ==
    <<"update", "fill", "floor", "cast", "walls", "sprites1", "sprites2",
      "weapon", "effects">>

\* The step that follows step p; after the last one the next frame begins.
StepAfter(p) ==
    LET i == CHOOSE k \in 1..Len(FrameOrder) : FrameOrder[k] = p
    IN  FrameOrder[(i % Len(FrameOrder)) + 1]

\* Game.update: the player moves and turns, enemies move or die.
Update ==
    /\ pc = "update"
    /\ \E p \in CamPositions, a \in CamAngles :
          player' = [x |-> p[1], y |-> p[2], angle |-> a]
    /\ \E sp \in SpriteConfigs :
          /\ sp[1].alive /\ sp[3].alive
          /\ sprites[2].alive = FALSE => sp[2].alive = FALSE
          /\ sprites' = sp
    /\ pc' = StepAfter(pc)
    /\ UNCHANGED <<z_buffer, rays, drawn>>

\* render_3d_view: self.screen.fill(SKY_COLOR)
ClearScreen ==
    /\ pc = "fill"
    /\ drawn' = <<PlainEvent("sky")>>
    /\ pc' = StepAfter(pc)
    /\ UNCHANGED <<player, sprites, z_buffer, rays>>

\* render_3d_view: self.mode7.render_floor_ceiling(...)
RenderFloorCeiling ==
    /\ pc = "floor"
    /\ drawn' = drawn \o <<PlainEvent("floor"), PlainEvent("ceiling")>>
    /\ pc' = StepAfter(pc)
    /\ UNCHANGED <<player, sprites, z_buffer, rays>>

\* render_3d_view: rays = self.raycaster.cast_rays(...)
CastRays ==
    /\ pc = "cast"
    /\ rays' = cast_rays(player.x, player.y, player.angle, map_data)
    /\ pc' = StepAfter(pc)
    /\ UNCHANGED <<player, sprites, z_buffer, drawn>>

\* render_3d_view: self.renderer.render_walls(rays)
RenderWalls ==
    /\ pc = "walls"
    /\ z_buffer' = render_walls(rays, z_buffer)
    /\ drawn' = drawn \o WallEvents(rays, 0)
    /\ pc' = StepAfter(pc)
    /\ UNCHANGED <<player, sprites, rays>>

\* EnemyManager.get_visible_enemies / NPCManager.get_visible_npcs
InRange(id) ==
    Dist2(sprites[id], player.x, player.y)
        <= MAX_RENDER_DISTANCE * MAX_RENDER_DISTANCE * Q * Q
get_visible_enemies == SelectSeq(Enemies, LAMBDA id : sprites[id].alive /\ InRange(id))
get_visible_npcs == SelectSeq(Npcs, LAMBDA id : InRange(id))

\* render_3d_view: first render_sprites call (enemies only)
RenderSpritesEnemies ==
    /\ pc = "sprites1"
    /\ LET events == render_sprites(get_visible_enemies, sprites, player.x,
                                    player.y, player.angle, z_buffer, 1)
       IN  /\ drawn' = drawn \o events
           /\ z_buffer' = sprite_pass_z_buffer(z_buffer, events)
    /\ pc' = StepAfter(pc)
    /\ UNCHANGED <<player, sprites, rays>>

\* render_3d_view: second render_sprites call (enemies and NPCs)
RenderSpritesAll ==
    /\ pc = "sprites2"
    /\ LET events == render_sprites(get_visible_enemies \o get_visible_npcs,
                                    sprites, player.x, player.y,
                                    player.angle, z_buffer, 2)
       IN  /\ drawn' = drawn \o events
           /\ z_buffer' = sprite_pass_z_buffer(z_buffer, events)
    /\ pc' = StepAfter(pc)
    /\ UNCHANGED <<player, sprites, rays>>

\* render_3d_view: self.renderer.render_weapon(...)
RenderWeapon ==
    /\ pc = "weapon"
    /\ drawn' = drawn \o <<PlainEvent("weapon")>>
    /\ pc' = StepAfter(pc)
    /\ UNCHANGED <<player, sprites, z_buffer, rays>>

\* render_3d_view: self.renderer.render_spell_effects(...); frame ends
RenderSpellEffects ==
    /\ pc = "effects"
    /\ drawn' = drawn \o <<PlainEvent("effects")>>
    /\ pc' = StepAfter(pc)
    /\ UNCHANGED <<player, sprites, z_buffer, rays>>

Next ==
    \/ Update /\ UNCHANGED <<ddaVars, m7Vars, wallVars, visVars, moveVars>>
    \/ ClearScreen /\ UNCHANGED <<ddaVars, m7Vars, wallVars, visVars, moveVars>>
    \/ RenderFloorCeiling /\ UNCHANGED <<ddaVars, m7Vars, wallVars, visVars, moveVars>>
    \/ CastRays /\ UNCHANGED <<ddaVars, m7Vars, wallVars, visVars, moveVars>>
    \/ RenderWalls /\ UNCHANGED <<ddaVars, m7Vars, wallVars, visVars, moveVars>>
    \/ RenderSpritesEnemies /\ UNCHANGED <<ddaVars, m7Vars, wallVars, visVars, moveVars>>
    \/ RenderSpritesAll /\ UNCHANGED <<ddaVars, m7Vars, wallVars, visVars, moveVars>>
    \/ RenderWeapon /\ UNCHANGED <<ddaVars, m7Vars, wallVars, visVars, moveVars>>
    \/ RenderSpellEffects /\ UNCHANGED <<ddaVars, m7Vars, wallVars, visVars, moveVars>>

Spec == Init /\ [][Next]_vars

----------------------------------------------------------------------------
(* One fast_dda call, step by step                                         *)

DDAGrids == {map_data, EmptyGrid, PillarGrid}

frameIdle ==
    /\ player = [x |-> Spawn[1], y |-> Spawn[2], angle |-> 0]
    /\ sprites = <<>>
    /\ z_buffer = [c \in Columns |-> ZERO]
    /\ rays = <<>>
    /\ pc = "idle"
    /\ drawn = <<>>

\* Any start position inside the grid, any direction (cos a, sin a).
InitDDA ==
    /\ frameIdle
    /\ m7Idle
    /\ wallIdle
    /\ visIdle
    /\ moveIdle
    /\ ddaGrid \in DDAGrids
    /\ \E x \in 0..(WORLD_SIZE * Q - 1), y \in 0..(WORLD_SIZE * Q - 1), a \in Angles :
          dda = DDASetup(x, y, Cos(a), Sin(a))
    /\ ddaPc = "loop"
    /\ ddaRes = NoRay

\* Cap of the iteration counter, above the number of iterations any ray
\* inside the grid can make.
MaxDDASteps == 3 * WORLD_SIZE

\* Loop iteration that takes the branch side_dist_x < side_dist_y.
DDAStepX ==
    /\ ddaPc = "loop" /\ ~dda.hit
    /\ dda.steps < MaxDDASteps
    /\ SideDistLess(dda)
    /\ dda' = DDAStep(dda, ddaGrid, WORLD_SIZE, WORLD_SIZE)
    /\ UNCHANGED <<ddaGrid, ddaPc, ddaRes>>

\* Loop iteration that takes the else branch.
DDAStepY ==
    /\ ddaPc = "loop" /\ ~dda.hit
    /\ dda.steps < MaxDDASteps
    /\ ~SideDistLess(dda)
    /\ dda' = DDAStep(dda, ddaGrid, WORLD_SIZE, WORLD_SIZE)
    /\ UNCHANGED <<ddaGrid, ddaPc, ddaRes>>

\* Loop exit: distance, texture_x and return.
DDAReturn ==
    /\ ddaPc = "loop" /\ dda.hit
    /\ ddaRes' = DDAResult(dda)
    /\ ddaPc' = "done"
    /\ UNCHANGED <<dda, ddaGrid>>

NextDDA ==
    \/ DDAStepX /\ UNCHANGED <<frameVars, m7Vars, wallVars, visVars, moveVars>>
    \/ DDAStepY /\ UNCHANGED <<frameVars, m7Vars, wallVars, visVars, moveVars>>
    \/ DDAReturn /\ UNCHANGED <<frameVars, m7Vars, wallVars, visVars, moveVars>>

SpecDDA == InitDDA /\ [][NextDDA]_vars

\* fast_dda runs to completion once called: no other code is interleaved
\* with its loop.
SpecDDAFair == SpecDDA /\ WF_vars(NextDDA)

----------------------------------------------------------------------------
(* Properties of the frame loop (Spec)                                     *)

WallPassDone == pc \in {"sprites1", "sprites2", "weapon", "effects"}
RaysCurrent == pc \in {"walls", "sprites1", "sprites2", "weapon", "effects"}
SpriteEvents == {k \in 1..Len(drawn) : drawn[k].kind = "sprite"}
InExtent(e, c) == e.left <= c /\ c < e.right

C2_PerColumnOcclusion ==
    \A k \in SpriteEvents :
        drawn[k].tested =>
            \A c \in Columns :
                InExtent(drawn[k], c) =>
                    /\ FLess(z_buffer[c], drawn[k].depth) => ~drawn[k].blit
                    /\ FLess(drawn[k].depth, z_buffer[c]) => drawn[k].blit

\* C2 amended: a sprite that reaches the occlusion test is blitted, over its
\* whole rectangle, exactly when its depth is strictly less than the depth
\* buffer at some on-screen column of its extent.
C2_AnyColumnGate ==
    \A k \in SpriteEvents :
        drawn[k].tested =>
            (drawn[k].blit <=>
                \E c \in Columns :
                    InExtent(drawn[k], c) /\ FLess(drawn[k].depth, z_buffer[c]))

\* A blitted sprite that is behind the wall at one column of its extent and
\* in front of it at another.
C2_Witness ==
    \E k \in SpriteEvents :
        /\ drawn[k].tested /\ drawn[k].blit
        /\ \E c, d \in Columns :
              /\ InExtent(drawn[k], c) /\ FLess(z_buffer[c], drawn[k].depth)
              /\ InExtent(drawn[k], d) /\ FLess(drawn[k].depth, z_buffer[d])

\* C3 as stated: within one render_sprites call the sprites are drawn in
\* non-increasing order of camY (sprite_y).
C3_OrderedByCamY ==
    \A j, k \in SpriteEvents :
        (j < k /\ drawn[j].pass = drawn[k].pass) =>
            FLeq(drawn[k].depth, drawn[j].depth)

\* C3 amended: within one render_sprites call the sprites are drawn in
\* non-increasing order of their Euclidean distance to the camera.
C3_OrderedByDistance ==
    \A j, k \in SpriteEvents :
        (j < k /\ drawn[j].pass = drawn[k].pass) =>
            drawn[j].dist2 >= drawn[k].dist2

\* Three sprites drawn in one call; the list order differs from the draw
\* order, and the draw order is not the camY order.
C3_Witness ==
    \E i, j, k \in SpriteEvents :
        /\ i < j /\ j < k
        /\ drawn[i].pass = 2 /\ drawn[j].pass = 2 /\ drawn[k].pass = 2
        /\ drawn[i].id > drawn[j].id
        /\ drawn[j].dist2 > drawn[k].dist2
        /\ FLess(drawn[j].depth, drawn[k].depth)

\* The camera looks along an axis and every column hits the same straight
\* wall plane perpendicular to the view direction.
FacingFlatWall ==
    /\ RaysCurrent
    /\ player.angle \in {0, 90, 180, 270}
    /\ \A c \in Columns :
          /\ rays[c].hit
          /\ InBounds(rays[c].map_x, rays[c].map_y, WORLD_SIZE, WORLD_SIZE)
          /\ IF player.angle \in {0, 180}
             THEN rays[c].side = 0 /\ rays[c].map_x = rays[0].map_x
             ELSE rays[c].side = 1 /\ rays[c].map_y = rays[0].map_y

\* Perpendicular distance from the camera to that wall plane.
PlaneDistance ==
    IF player.angle = 0 THEN <<rays[0].map_x * Q - player.x, Q>>
    ELSE IF player.angle = 180 THEN <<player.x - (rays[0].map_x + 1) * Q, Q>>
    ELSE IF player.angle = 90 THEN <<rays[0].map_y * Q - player.y, Q>>
    ELSE <<player.y - (rays[0].map_y + 1) * Q, Q>>

\* C4: facing a flat perpendicular wall, every column reports the
\* perpendicular distance to the wall plane (edge and centre columns agree).
C4_PerpendicularDistance ==
    FacingFlatWall => \A c \in Columns : FEq(rays[c].distance, PlaneDistance)

\* C9: the ray angle is strictly increasing in the column index, from
\* cameraAngle - FOV/2 at column 0 to cameraAngle + FOV/2 at the last column.
C9_RayAnglesIncrease ==
    RaysCurrent =>
        /\ \A i \in 0..(NUM_RAYS - 2) : rays[i].angle < rays[i + 1].angle
        /\ 2 * rays[0].angle = 2 * player.angle - FOV
        /\ 2 * rays[NUM_RAYS - 1].angle = 2 * player.angle + FOV

\* Rays cast for a camera angle whose fan crosses 360 degrees.
C9_Witness ==
    /\ RaysCurrent
    /\ player.angle < 360 /\ player.angle + FOV > 360

\* C10: at the start of a frame and until the wall pass writes it, every
\* depth buffer entry is +infinity.
C10_BufferResetEachFrame ==
    pc \in {"fill", "floor", "cast", "walls"} =>
        \A c \in Columns : z_buffer[c] = INF

\* C11: the sprite pass is read-only on the depth buffer; both render_sprites
\* calls of a frame leave every z_buffer entry unchanged.
C11_SpritePassReadOnly ==
    [][(pc \in {"sprites1", "sprites2"}) => (z_buffer' = z_buffer)]_vars

\* Both sprite passes are over, a sprite was blitted in front of the wall at
\* some column, and the buffer still holds the wall distances.
C11_Witness ==
    /\ pc = "weapon"
    /\ \E k \in SpriteEvents, c \in Columns :
          /\ drawn[k].blit
          /\ InExtent(drawn[k], c)
          /\ FLess(drawn[k].depth, z_buffer[c])
          /\ z_buffer[c] = rays[c].distance

\* Position of a draw call's kind in the frame: background clear, the two
\* Mode-7 planes, wall slices, sprites, weapon, spell effects.
Stage(kind) ==
    CASE kind = "sky" -> 0
      [] kind \in {"floor", "ceiling"} -> 1
      [] kind = "wall" -> 2
      [] kind = "sprite" -> 3
      [] kind = "weapon" -> 4
      [] kind = "effects" -> 5

\* The depth buffer the wall pass produces for the current camera pose.
FrameDepth ==
    LET r == cast_rays(player.x, player.y, player.angle, map_data)
    IN  [c \in Columns |-> r[c].distance]

\* The log is the log of the frame in progress or just completed: the next
\* frame's update has not moved the camera yet.
FrameLogCurrent == pc # "fill"

\* C12: within a frame the planes are drawn before the wall slices, the wall
\* slices before the sprites, the sprites before the weapon and the spell
\* effects, which end the frame's drawing; every sprite is tested against
\* the depth buffer of the same frame's wall pass and the overlay is drawn
\* without a depth test.
C12_FrameDrawOrder ==
    FrameLogCurrent =>
        /\ \A j, k \in 1..Len(drawn) :
              j < k => Stage(drawn[j].kind) <= Stage(drawn[k].kind)
        /\ \A k \in 1..Len(drawn) :
              /\ Stage(drawn[k].kind) >= 2 =>
                    \E f \in 1..(k - 1) : drawn[f].kind = "floor"
              /\ Stage(drawn[k].kind) >= 4 => pc \in {"effects", "update"}
              /\ drawn[k].kind = "sprite" =>
                    /\ z_buffer = FrameDepth
                    /\ drawn[k].tested =>
                          drawn[k].blit =
                              is_sprite_visible(drawn[k].left, drawn[k].right,
                                                drawn[k].depth, FrameDepth)
              /\ drawn[k].kind \in {"weapon", "effects"} =>
                    ~drawn[k].tested /\ drawn[k].blit
        /\ (pc = "update" /\ drawn # <<>>) => drawn[Len(drawn)].kind = "effects"

\* A second or later frame is complete: its log holds wall slices, a sprite
\* hidden by the walls, a blitted sprite and the overlay, and the camera has
\* moved since the first frame.
C12_Witness ==
    /\ pc = "update"
    /\ drawn # <<>>
    /\ player.angle # 0
    /\ \E w, h, v \in 1..Len(drawn) :
          /\ drawn[w].kind = "wall"
          /\ drawn[h].kind = "sprite" /\ drawn[h].tested /\ ~drawn[h].blit
          /\ drawn[v].kind = "sprite" /\ drawn[v].blit
    /\ drawn[Len(drawn)].kind = "effects"

\* The sprite's offset from the camera, in 1/Q units.
SpriteDx(id) == sprites[id].x - player.x
SpriteDy(id) == sprites[id].y - player.y

\* camY of the sprite transform, the rotation of the offset by -angle, in
\* units of 1/(Q * TrigScale).
CamY(id) == SpriteDx(id) * Sin(-player.angle) + SpriteDy(id) * Cos(-player.angle)

\* camY <= 0.1
AtOrBehindNearPlane(id) == CamY(id) * 10 <= Q * TrigScale

ForwardDepth(id) == SpriteDx(id) * Cos(player.angle) + SpriteDy(id) * Sin(player.angle)
LateralOffset(id) == SpriteDy(id) * Cos(player.angle) - SpriteDx(id) * Sin(player.angle)

\* C17: a sprite at camera + d * (cos(angle), sin(angle)) with d > 0.1 is
\* depth-tested with depth d and centred on column SCREEN_WIDTH / 2; a
\* sprite at camera - d * (cos(angle), sin(angle)) is discarded.
C17_CamYIsForwardDepth ==
    FrameLogCurrent =>
        \A k \in SpriteEvents :
            LET id == drawn[k].id
                e == drawn[k]
            IN  LateralOffset(id) = 0 =>
                    /\ ForwardDepth(id) * 10 > Q * TrigScale =>
                          /\ e.tested
                          /\ FEq(e.depth, <<ForwardDepth(id), Q * TrigScale>>)
                          /\ e.left + ((e.right - e.left) \div 2) = SCREEN_WIDTH \div 2
                    /\ ForwardDepth(id) < 0 => ~e.tested /\ ~e.blit

----------------------------------------------------------------------------
(* Properties of fast_dda (SpecDDA)                                        *)

StartCell == <<TruncDiv(dda.x, Q), TruncDiv(dda.y, Q)>>

\* Cells with a wall on the ray's axis, beyond the start cell.
WallsAhead ==
    IF dda.dy = 0
    THEN {m \in 0..(WORLD_SIZE - 1) :
            /\ ddaGrid[<<m, StartCell[2]>>] > 0
            /\ IF dda.dx > 0 THEN m > StartCell[1] ELSE m < StartCell[1]}
    ELSE {m \in 0..(WORLD_SIZE - 1) :
            /\ ddaGrid[<<StartCell[1], m>>] > 0
            /\ IF dda.dy > 0 THEN m > StartCell[2] ELSE m < StartCell[2]}

\* The first of them along the ray.
FirstWall ==
    LET d == IF dda.dy = 0 THEN dda.dx ELSE dda.dy
    IN  CHOOSE m \in WallsAhead :
            \A n \in WallsAhead : IF d > 0 THEN m <= n ELSE m >= n

\* Distance along the axis from the start to the near face of that cell,
\* in 1/Q units.
NearFaceDistance ==
    IF dda.dy = 0
    THEN (IF dda.dx > 0 THEN FirstWall * Q - dda.x ELSE dda.x - (FirstWall + 1) * Q)
    ELSE (IF dda.dy > 0 THEN FirstWall * Q - dda.y ELSE dda.y - (FirstWall + 1) * Q)

AxisAlignedCase ==
    /\ ddaPc = "done"
    /\ (dda.dx = 0 \/ dda.dy = 0)
    /\ ddaGrid[StartCell] = 0
    /\ WallsAhead # {}

\* C5: an axis-aligned ray from an empty cell returns hit, the distance to
\* the near face of the first non-empty cell, side 0 for an X-aligned and 1
\* for a Y-aligned ray, that cell's texture id, and as texture_x the
\* fractional part of the camera's coordinate on the other axis.
C5_AxisAlignedRay ==
    AxisAlignedCase =>
        /\ ddaRes.hit
        /\ ~ddaRes.err
        /\ FEq(ddaRes.distance, <<NearFaceDistance, Q>>)
        /\ ddaRes.side = (IF dda.dy = 0 THEN 0 ELSE 1)
        /\ ddaRes.texture_id =
              (IF dda.dy = 0 THEN ddaGrid[<<FirstWall, StartCell[2]>>]
                             ELSE ddaGrid[<<StartCell[1], FirstWall>>])
        /\ FEq(ddaRes.texture_x,
               <<(IF dda.dy = 0 THEN dda.y ELSE dda.x) % Q, Q>>)

\* A ray in a negative axis direction, from a position off the grid lines,
\* that crossed an empty cell before its wall.
C5_Witness ==
    /\ AxisAlignedCase
    /\ dda.dx < 0
    /\ dda.x % Q # 0 /\ dda.y % Q # 0
    /\ NearFaceDistance > Q

\* C8: a ray with dx == 0 (dy == 0) never takes an X (Y) step, so the final
\* division is never by the zero component and distance and texture_x are
\* finite.
C8_NoStepAlongZeroComponent ==
    /\ (ddaPc \in {"loop", "done"} /\ dda.dx = 0) => dda.map_x = StartCell[1]
    /\ (ddaPc \in {"loop", "done"} /\ dda.dy = 0) => dda.map_y = StartCell[2]
    /\ (ddaPc = "done" /\ (dda.dx = 0 \/ dda.dy = 0)) =>
          /\ ~ddaRes.err
          /\ IsFinite(ddaRes.distance)
          /\ IsFinite(ddaRes.texture_x)

\* A returned ray with dx == 0 that started on a vertical grid line and
\* took several Y steps.
C8_Witness ==
    /\ ddaPc = "done"
    /\ dda.dx = 0
    /\ dda.x % Q = 0
    /\ Abs(dda.map_y - StartCell[2]) >= 2

LeftGrid == ~InBounds(dda.map_x, dda.map_y, WORLD_SIZE, WORLD_SIZE)

\* C13: when the stepping leaves the grid the ray ends as a hit with the
\* default wall texture id 1; no iteration reads world_array outside its
\* bounds, the loop only continues from cells inside the grid, and the
\* result is computed without error.
C13_LeavingGridIsDefaultWall ==
    /\ ddaPc \in {"loop", "done"} =>
          /\ dda.read # <<>> =>
                InBounds(dda.read[1], dda.read[2], WORLD_SIZE, WORLD_SIZE)
          /\ LeftGrid => dda.hit /\ dda.texture_id = 1 /\ dda.read = <<>>
    /\ (ddaPc = "done" /\ LeftGrid) =>
          /\ ddaRes.hit
          /\ ddaRes.texture_id = 1
          /\ ~ddaRes.err
          /\ IsFinite(ddaRes.distance)

\* A returned ray that crossed at least two cells of a grid without border
\* walls and ended outside it, beyond the edge x = 0.
C13_Witness ==
    /\ ddaPc = "done"
    /\ ddaGrid = PillarGrid
    /\ dda.map_x = -1
    /\ Abs(dda.map_x - StartCell[1]) + Abs(dda.map_y - StartCell[2]) >= 2
    /\ ddaRes.hit

\* C18: every returned ray has texture_x in [0, 1), whatever the start
\* position inside the grid and the direction, also when the ray ends by
\* leaving the grid.
C18_TextureXInUnitInterval ==
    ddaPc = "done" =>
        /\ IsFinite(ddaRes.texture_x)
        /\ FLeq(ZERO, ddaRes.texture_x)
        /\ FLess(ddaRes.texture_x, <<1, 1>>)

\* A ray in a direction with two negative components that left the grid
\* two or more cells from its start, with a hit coordinate that has a
\* non-zero fractional part.
C18_Witness ==
    /\ ddaPc = "done"
    /\ LeftGrid
    /\ dda.dx < 0 /\ dda.dy < 0
    /\ Abs(dda.map_x - StartCell[1]) + Abs(dda.map_y - StartCell[2]) >= 3
    /\ FLess(ZERO, ddaRes.texture_x)

\* C19: a ray cast from a position in an empty cell of the grid, grid lines
\* included, returns a distance strictly greater than 0.
C19_PositiveDistance ==
    (ddaPc = "done" /\ ddaGrid[StartCell] = 0) => FLess(ZERO, ddaRes.distance)

----------------------------------------------------------------------------
(* One Mode7Renderer.render_horizontal_surface call, observed at two       *)
(* destination pixels                                                      *)

HalfHeight == SCREEN_HEIGHT \div 2
M7Rows == 0..(HalfHeight - 1)
M7Columns == {0, SCREEN_WIDTH \div 2, SCREEN_WIDTH - 1}
M7Angles == {0, 30, 90, 180, 270}
M7Offsets == {-1, 1, 2}

\* Camera coordinates k + 0.3 and m + 0.7 inside the world.
M7CamX == {<<10 * k + 3, 10>> : k \in 1..2}
M7CamY == {<<10 * m + 7, 10>> : m \in 1..2}

\* Pixel a is (x, y) seen from the camera.  Pixel b is either the same
\* pixel seen from the camera moved by n whole tiles on both axes, or the
\* pixel of row y2 in the same column seen from the same camera.  fails
\* says that the fast path raises, so that the fallback renders; raises
\* says that the fallback's texel reads raise; is_ceiling selects the plane.
InitMode7 ==
    /\ frameIdle
    /\ ddaIdle
    /\ wallIdle
    /\ visIdle
    /\ moveIdle
    /\ \E px \in M7CamX, py \in M7CamY, ang \in M7Angles, tex \in Textures,
          fails \in BOOLEAN, x \in M7Columns, y \in M7Rows :
          \E n \in M7Offsets \cup {0}, y2 \in M7Rows :
             /\ (n = 0 \/ y2 = y)
             /\ (n # 0 \/ y2 # y)
             /\ m7 = [player_x |-> px, player_y |-> py, angle |-> ang,
                      tex |-> tex, fails |-> fails, raises |-> FALSE,
                      is_ceiling |-> FALSE, x |-> x, y |-> y,
                      n |-> n, y2 |-> y2, a |-> NoPixel, b |-> NoPixel]
    /\ m7Pc = "start"

Shifted(c, n) == FAdd(c, <<n, 1>>)

\* render_floor_ceiling for one plane.  texture.get_width() stands outside
\* the try of render_horizontal_surface: with no texture object the call
\* raises and the frame is aborted.
Mode7Render(fallback) ==
    /\ m7Pc = "start"
    /\ m7.fails = fallback
    /\ LET texture == PlaneTexture(m7.tex, m7.is_ceiling)
       IN  IF texture = "none"
           THEN m7' = m7 /\ m7Pc' = "aborted"
           ELSE /\ m7' = [m7 EXCEPT
                          !.a = PlanePixel(m7.x, m7.y, m7.player_x, m7.player_y,
                                           m7.angle, texture, fallback,
                                           m7.raises, m7.is_ceiling),
                          !.b = PlanePixel(m7.x, m7.y2, Shifted(m7.player_x, m7.n),
                                           Shifted(m7.player_y, m7.n), m7.angle,
                                           texture, fallback, m7.raises,
                                           m7.is_ceiling)]
                /\ m7Pc' = "done"

\* render_horizontal_surface: the fast path succeeds.
RenderOptimized == Mode7Render(FALSE)

\* render_horizontal_surface: the fast path raises, render_fallback_mode7 runs.
RenderFallback == Mode7Render(TRUE)

NextMode7 ==
    \/ RenderOptimized /\ UNCHANGED <<frameVars, ddaVars, wallVars, visVars, moveVars>>
    \/ RenderFallback /\ UNCHANGED <<frameVars, ddaVars, wallVars, visVars, moveVars>>

SpecMode7 == InitMode7 /\ [][NextMode7]_vars

----------------------------------------------------------------------------
(* Properties of the Mode-7 projector (SpecMode7)                          *)

\* f = k + t/10 for an integer k.
HasTenths(f, t) == (10 * f[1] - t * f[2]) % (10 * f[2]) = 0

\* Pixels a and b sample the world at (k + 0.3, m + 0.7) and at
\* (k + N + 0.3, m + N + 0.7).
TileShiftedSamples ==
    /\ m7Pc = "done"
    /\ m7.n # 0
    /\ m7.a.written /\ m7.b.written
    /\ HasTenths(m7.a.final_x, 3) /\ HasTenths(m7.a.final_z, 7)
    /\ m7.b.final_x = Shifted(m7.a.final_x, m7.n)
    /\ m7.b.final_z = Shifted(m7.a.final_z, m7.n)

\* C6: the texture coordinates of world sample (k + 0.3, m + 0.7) and of
\* (k + N + 0.3, m + N + 0.7) are identical, for all integers k, m, N.
C6_TextureWrapPeriodic ==
    TileShiftedSamples =>
        m7.a.tex_x = m7.b.tex_x /\ m7.a.tex_z = m7.b.tex_z

\* Pixels a and b show the same texel colour at depths d1 < d2, both below
\* MAX_RENDER_DISTANCE.
SameTexelTwoDepths ==
    /\ m7Pc = "done"
    /\ m7.a.written /\ m7.b.written
    /\ m7.a.color = m7.b.color
    /\ FLess(m7.a.pos_z, m7.b.pos_z)
    /\ FLess(m7.b.pos_z, <<MAX_RENDER_DISTANCE, 1>>)

\* C7: fog is monotone, each fogged channel at the smaller depth is >= the
\* one at the larger depth, and the fog factor lies in [0.2, 1].
C7_FogMonotone ==
    /\ SameTexelTwoDepths => \A ch \in 1..3 : m7.a.out[ch] >= m7.b.out[ch]
    /\ (m7Pc = "done" /\ m7.a.written) =>
          FLeq(<<1, 5>>, m7.a.fog) /\ FLeq(m7.a.fog, <<1, 1>>)

\* Two depths below the maximum, the farther one on the fog floor, with
\* different written colours.
C7_Witness ==
    /\ SameTexelTwoDepths
    /\ m7.b.fog = <<1, 5>>
    /\ m7.a.out # m7.b.out

\* Pixel a lies on the horizon row (y = 0, screen_y = SCREEN_HEIGHT / 2) and
\* pixel b on another row of the same column, seen from the same camera.
HorizonRowAndOther ==
    /\ m7Pc = "done"
    /\ m7.n = 0
    /\ m7.y = 0

\* C22: on the horizon row the projector does not divide by zero and uses a
\* depth at least as large as the depth of every other row; no NaN/Inf
\* reaches a pixel of that row.
C22_HorizonRowDepthLargest ==
    (HorizonRowAndOther /\ m7.a.written) =>
        /\ IsFinite(m7.a.pos_z)
        /\ \A ch \in 1..3 : m7.a.out[ch] \in 0..255
        /\ m7.b.written => FLeq(m7.b.pos_z, m7.a.pos_z)

\* Pixel a lies in the centre column (screen_x = 0, so pos_x = 0) of a row
\* that is rendered.
CentreColumnSample ==
    /\ m7Pc = "done"
    /\ m7.x = SCREEN_WIDTH \div 2
    /\ m7.a.written

\* camera + pos_z * (cos(angle), sin(angle)): the point at distance pos_z on
\* the ray RayCaster.cast_rays casts for ray_angle = player_angle, both
\* coordinates in lowest terms.
OnCentreRay(cam_x, cam_y, angle, pos_z) ==
    <<FAdd(Norm(<<pos_z[1] * Cos(angle), pos_z[2] * TrigScale>>), cam_x),
      FAdd(Norm(<<pos_z[1] * Sin(angle), pos_z[2] * TrigScale>>), cam_y)>>

\* C24: for the centre column at perspective depth pos_z the world point the
\* Mode-7 projector samples is camera + pos_z * (cos(angle), sin(angle)), a
\* point of the centre ray of the wall raycaster.
C24_SamplesAlongViewDirection ==
    CentreColumnSample =>
        LET pt == OnCentreRay(m7.player_x, m7.player_y, m7.angle, m7.a.pos_z)
        IN  m7.a.final_x = pt[1] /\ m7.a.final_z = pt[2]

\* The same destination pixel as the other path of render_horizontal_surface
\* writes it: the fallback when the fast path rendered, and the reverse.
OtherPathPixel(x, y, px, py) ==
    PlanePixel(x, y, px, py, m7.angle, PlaneTexture(m7.tex, m7.is_ceiling),
               ~m7.fails, m7.raises, m7.is_ceiling)

\* C28: for the same texture and camera pose the fast path and the fallback
\* write the same colour to every destination pixel, the pixels of the
\* horizon row y = 0 included.
C28_FastPathEqualsFallback ==
    m7Pc = "done" =>
        /\ m7.a.out = OtherPathPixel(m7.x, m7.y, m7.player_x, m7.player_y).out
        /\ m7.b.out = OtherPathPixel(m7.x, m7.y2, Shifted(m7.player_x, m7.n),
                                     Shifted(m7.player_y, m7.n)).out

----------------------------------------------------------------------------
(* Mode7Renderer.render_floor_ceiling with missing textures and failing    *)
(* sampling, observed at two destination pixels of one plane               *)

\* Pixel a is (x, y) and pixel b the pixel of the next row in the same
\* column.  The texture lookup may return nothing, the fast path may raise,
\* and then the texel reads of the fallback may raise.
InitPlanes ==
    /\ frameIdle
    /\ ddaIdle
    /\ wallIdle
    /\ visIdle
    /\ moveIdle
    /\ \E px \in M7CamX, py \in M7CamY, ang \in M7Angles,
          tex \in Textures \cup {"none"}, fails \in BOOLEAN, raises \in BOOLEAN,
          is_ceiling \in BOOLEAN, x \in M7Columns, y \in M7Rows :
          /\ raises => fails
          /\ m7 = [player_x |-> px, player_y |-> py, angle |-> ang,
                   tex |-> tex, fails |-> fails, raises |-> raises,
                   is_ceiling |-> is_ceiling, x |-> x, y |-> y, n |-> 0,
                   y2 |-> (y + 1) % HalfHeight, a |-> NoPixel, b |-> NoPixel]
    /\ m7Pc = "start"

SpecPlanes == InitPlanes /\ [][NextMode7]_vars

----------------------------------------------------------------------------
(* Properties of render_floor_ceiling (SpecPlanes)                         *)

FlatColour == IF m7.is_ceiling THEN CEILING_COLOR ELSE FLOOR_COLOR
TextureMissing == m7.tex = "none"
ObservedPixels == {m7.a, m7.b}

\* C15 as stated: when the texture is missing or sampling fails, the plane
\* is filled with the flat fallback colour and the call completes.
C15_FlatFillOnFailure ==
    /\ m7Pc # "aborted"
    /\ (m7Pc = "done" /\ (TextureMissing \/ m7.fails)) =>
          \A pix \in ObservedPixels : pix.out = FlatColour

\* C15 amended: the call completes; a missing texture is replaced by the
\* procedural default texture of the plane, a raising fast path by the
\* per-pixel fallback renderer on the same texture, and only a pixel whose
\* texel read raises in the fallback renderer gets the flat colour.
C15_DegradesWithoutAbort ==
    /\ m7Pc # "aborted"
    /\ m7Pc = "done" =>
          LET texture == IF ~TextureMissing THEN m7.tex
                         ELSE IF m7.is_ceiling THEN "stone" ELSE "checker"
          IN  \A pix \in ObservedPixels :
                  /\ pix.written <=> (m7.fails \/ pix.pos_z # <<1, 1000>>)
                  /\ pix.written =>
                        IF m7.fails /\ m7.raises
                        THEN pix.out = FlatColour
                        ELSE pix.out = Fogged(Texel(texture, pix.tex_x, pix.tex_z),
                                              pix.fog)

\* The texture is missing and the fast path raised; the fallback renderer
\* sampled the default texture and wrote a pixel that is not the flat
\* colour.
C15_Witness ==
    /\ m7Pc = "done"
    /\ TextureMissing /\ m7.fails /\ ~m7.raises
    /\ m7.a.written
    /\ m7.a.out # FlatColour

----------------------------------------------------------------------------
(* One wall pass, RayCaster.cast_rays then Renderer.render_walls, for a    *)
(* camera anywhere in an empty cell                                        *)

\* map_data after World.set_cell put wall types 7 and 4 into two cells.
OtherIdsMap == [map_data EXCEPT ![<<4, 1>>] = 7, ![<<4, 3>>] = 4]
WallMaps == {map_data, OtherIdsMap}

\* Sets of wall texture ids asset_manager.textures may hold.
WallTextureSets == {{}, {1}, {2, 3}, {1, 2, 3, 4}}

InitWalls ==
    /\ frameIdle
    /\ ddaIdle
    /\ m7Idle
    /\ visIdle
    /\ moveIdle
    /\ \E x \in 0..(WORLD_SIZE * Q - 1), y \in 0..(WORLD_SIZE * Q - 1),
          a \in Angles, world \in WallMaps, textures \in WallTextureSets :
          /\ world[<<TruncDiv(x, Q), TruncDiv(y, Q)>>] = 0
          /\ wl = [x |-> x, y |-> y, angle |-> a, world |-> world,
                   textures |-> textures, rays |-> <<>>,
                   z_buffer |-> [c \in Columns |-> ZERO], slices |-> <<>>]
    /\ wlPc = "cast"

\* rays = self.raycaster.cast_rays(...)
WallsCastRays ==
    /\ wlPc = "cast"
    /\ wl' = [wl EXCEPT !.rays = cast_rays(wl.x, wl.y, wl.angle, wl.world)]
    /\ wlPc' = "render"

\* self.renderer.render_walls(rays)
WallsRender ==
    /\ wlPc = "render"
    /\ wl' = [wl EXCEPT !.z_buffer = render_walls(wl.rays, wl.z_buffer),
                        !.slices = wall_slices(wl.rays, wl.textures, 0)]
    /\ wlPc' = "done"

NextWalls ==
    \/ WallsCastRays /\ UNCHANGED <<frameVars, ddaVars, m7Vars, visVars, moveVars>>
    \/ WallsRender /\ UNCHANGED <<frameVars, ddaVars, m7Vars, visVars, moveVars>>

SpecWalls == InitWalls /\ [][NextWalls]_vars

----------------------------------------------------------------------------
(* Properties of the wall pass (SpecWalls)                                 *)

Slices == 1..Len(wl.slices)
Untextured(k) == ~wl.slices[k].textured
OwnColourIds == 1..4

\* C14: a slice whose texture id has no texture bound is drawn in a flat
\* colour that depends on the id alone, ids 1..4 each having their own
\* colour and all other ids sharing the default; its column's depth buffer
\* entry is the ray's distance.
C14_FlatColourFallback ==
    wlPc = "done" =>
        \A j, k \in Slices :
            (Untextured(j) /\ Untextured(k)) =>
                LET a == wl.slices[j]
                    b == wl.slices[k]
                IN  /\ Len(a.color) = 3
                    /\ a.texture_id = wl.rays[a.x].texture_id
                    /\ wl.z_buffer[a.x] = wl.rays[a.x].distance
                    /\ a.texture_id = b.texture_id => a.color = b.color
                    /\ (a.texture_id \notin OwnColourIds
                          /\ b.texture_id \notin OwnColourIds) => a.color = b.color
                    /\ (a.texture_id \in OwnColourIds
                          /\ a.texture_id # b.texture_id) => a.color # b.color

\* One wall pass drew a textured slice, two untextured slices of the same
\* id at different distances, an untextured slice of another id in 1..4
\* and an untextured slice of an id outside 1..4.
C14_Witness ==
    /\ wlPc = "done"
    /\ \E t, i, j, k, m \in Slices :
          /\ wl.slices[t].textured
          /\ Untextured(i) /\ Untextured(j) /\ Untextured(k) /\ Untextured(m)
          /\ wl.slices[i].texture_id = wl.slices[j].texture_id
          /\ ~FEq(wl.slices[i].distance, wl.slices[j].distance)
          /\ wl.slices[k].texture_id \in OwnColourIds
          /\ wl.slices[k].texture_id # wl.slices[i].texture_id
          /\ wl.slices[m].texture_id \notin OwnColourIds

\* The epsilon of the wall pass, 0.001.
WallEpsilon == <<1, 1000>>

\* max(distance, epsilon)
ClampedDistance(d) == IF FLess(d, WallEpsilon) THEN WallEpsilon ELSE d

\* C20: every column whose ray hit gets a wall slice of height
\* SCREEN_HEIGHT / max(distance, epsilon); a column with distance <= epsilon
\* gets a slice that spans the full screen height.
C20_SliceForEveryHit ==
    wlPc = "done" =>
        \A c \in Columns :
            wl.rays[c].hit =>
                \E k \in Slices :
                    LET d == ClampedDistance(wl.rays[c].distance)
                    IN  /\ wl.slices[k].x = c
                        /\ wl.slices[k].wall_height =
                              TruncDiv(SCREEN_HEIGHT * d[2], d[1])
                        /\ FLeq(wl.rays[c].distance, WallEpsilon) =>
                              /\ wl.slices[k].wall_start = 0
                              /\ wl.slices[k].wall_end = SCREEN_HEIGHT

----------------------------------------------------------------------------
(* One call of Renderer.is_sprite_visible (SpecVisible): any rectangle,    *)
(* on screen, partly or wholly off screen, against any depth buffer.       *)

MaxSpriteSize == 4
VisMargin == 5
VisDepths == {<<1, 1>>, <<2, 1>>, <<3, 1>>}
VisBufferDepths == {<<1, 1>>, <<3, 1>>}

InitVisible ==
    /\ frameIdle
    /\ ddaIdle
    /\ m7Idle
    /\ wallIdle
    /\ moveIdle
    /\ visPc = "call"
    /\ \E left \in (-VisMargin)..(SCREEN_WIDTH + VisMargin - MaxSpriteSize),
          size \in 0..MaxSpriteSize, depth \in VisDepths,
          zb \in [Columns -> VisBufferDepths] :
          vis = [left |-> left, right |-> left + size, depth |-> depth,
                 zb |-> zb, result |-> FALSE]

VisibleCall ==
    /\ visPc = "call"
    /\ vis' = [vis EXCEPT
                 !.result = is_sprite_visible(vis.left, vis.right, vis.depth,
                                              vis.zb)]
    /\ visPc' = "done"

NextVisible ==
    \/ VisibleCall /\ UNCHANGED <<frameVars, ddaVars, m7Vars, wallVars, moveVars>>

SpecVisible == InitVisible /\ [][NextVisible]_vars

\* The columns is_sprite_visible compares for a rectangle [left, right):
\* z_buffer[start_x:end_x] with start_x = max(0, left) and
\* end_x = min(SCREEN_WIDTH, right).
ClampedExtent(e) ==
    LET start_x == IF e.left > 0 THEN e.left ELSE 0
        end_x == IF e.right < SCREEN_WIDTH THEN e.right ELSE SCREEN_WIDTH
    IN  start_x..(end_x - 1)

\* C21: is_sprite_visible(rect, depth) is true exactly when some column of
\* [max(0, rect.left), min(SCREEN_WIDTH, rect.right)) has depth strictly less
\* than the depth buffer; it is false when that clamped extent is empty, and
\* every column it reads is an index of the depth buffer.
C21_VisibleIffSomeClampedColumn ==
    visPc = "done" =>
        /\ ClampedExtent(vis) \subseteq DOMAIN vis.zb
        /\ ClampedExtent(vis) = {} => ~vis.result
        /\ vis.result <=>
              \E c \in ClampedExtent(vis) : FLess(vis.depth, vis.zb[c])

\* The call has returned false for a rectangle that sticks out of the screen
\* on the left, is hidden at every column left after clamping, and whose
\* depth buffer holds a farther wall at a column outside the rectangle.
C21_Witness ==
    /\ visPc = "done" /\ ~vis.result
    /\ vis.left < 0 /\ ClampedExtent(vis) # {}
    /\ \E c \in Columns \ ClampedExtent(vis) : FLess(vis.depth, vis.zb[c])

----------------------------------------------------------------------------
(* Properties of the DDA traversal (SpecDDA)                               *)

\* side_dist_x = side_dist_y: the next X and the next Y grid-line crossing
\* are equally far (the ray runs through a grid corner, or starts on one).
SideDistEqual(st) ==
    LET ddx == DeltaDist(st.dx)
        ddy == DeltaDist(st.dy)
    IN  st.ax * ddx[1] * ddy[2] = st.ay * ddy[1] * ddx[2]

TieInLoop == ddaPc = "loop" /\ ~dda.hit /\ SideDistEqual(dda)

\* C23 as stated: on a tie the X step is taken first and the hit is
\* attributed to the X axis (side 0).
C23_TieTakesXStep ==
    [][TieInLoop =>
          /\ dda'.map_x = dda.map_x + dda.step_x
          /\ dda'.map_y = dda.map_y
          /\ dda'.side = 0]_vars

\* C23 amended: on a tie the Y step is taken first and the hit is attributed
\* to the Y axis (side 1) if the cell entered is a wall or outside the grid.
C23_TieTakesYStep ==
    [][TieInLoop =>
          /\ dda'.map_y = dda.map_y + dda.step_y
          /\ dda'.map_x = dda.map_x
          /\ dda'.side = 1
          /\ LET cell == <<dda.map_x, dda.map_y + dda.step_y>>
             IN  (cell \notin DOMAIN ddaGrid \/ ddaGrid[cell] > 0) => dda'.hit]_vars

\* The last step was taken from a tie and was a Y step.
LastStepWasTiedY ==
    LET ddx == DeltaDist(dda.dx)
        ddy == DeltaDist(dda.dy)
    IN  /\ dda.side = 1
        /\ <<dda.map_x, dda.map_y>> # StartCell
        /\ dda.ax * ddx[1] * ddy[2] = (dda.ay - Q) * ddy[1] * ddx[2]

\* A ray that started strictly inside a cell, ran through a grid corner and
\* was returned as a hit of a wall cell inside the grid on side 1.
C23_Witness ==
    /\ ddaPc = "done"
    /\ LastStepWasTiedY
    /\ dda.x % Q # 0 /\ dda.y % Q # 0
    /\ ~LeftGrid /\ ddaGrid[<<dda.map_x, dda.map_y>>] > 0
    /\ ddaRes.hit /\ ddaRes.side = 1

\* The start position lies in an empty cell of the grid.
StartsInEmptyCell ==
    /\ ddaPc \in {"loop", "done"}
    /\ ddaGrid[StartCell] = 0

CurrentCell == <<dda.map_x, dda.map_y>>

\* C25: from a start inside an empty in-bounds cell, in any direction on any
\* grid, every cell the traversal visits before the reported one is in
\* bounds and empty, each step changes exactly one of map_x, map_y by 1, the
\* reported cell is non-empty or out of bounds, and the reported texture_id
\* is that cell's code, or 1 out of bounds.
C25_FirstObstacleAlongTraversal ==
    [][(StartsInEmptyCell /\ ddaPc = "loop") =>
          IF ~dda.hit
          THEN /\ ~LeftGrid
               /\ ddaGrid[CurrentCell] = 0
               /\ Abs(dda'.map_x - dda.map_x) + Abs(dda'.map_y - dda.map_y) = 1
          ELSE /\ IF LeftGrid THEN dda.texture_id = 1
                  ELSE ddaGrid[CurrentCell] > 0
                       /\ dda.texture_id = ddaGrid[CurrentCell]
               /\ ddaRes'.hit
               /\ <<ddaRes'.map_x, ddaRes'.map_y>> = CurrentCell
               /\ ddaRes'.texture_id = dda.texture_id]_vars

\* A returned ray that started strictly inside an empty cell, made X steps
\* and Y steps, passed through a grid corner on its way and reported a wall
\* cell inside the grid whose code is not the default 1.
C25_Witness ==
    /\ StartsInEmptyCell
    /\ ddaPc = "done"
    /\ dda.x % Q # 0 /\ dda.y % Q # 0
    /\ Abs(dda.map_x - StartCell[1]) >= 1
    /\ Abs(dda.map_y - StartCell[2]) >= 1
    /\ LastStepWasTiedY
    /\ ~LeftGrid
    /\ ddaRes.texture_id = ddaGrid[CurrentCell]
    /\ ddaRes.texture_id >= 2

\* C26: the loop of fast_dda terminates for every start position inside the
\* grid and every direction, axis-aligned ones included, on every grid, also
\* one without walls and without a closed border, after at most
\* width + height iterations, and it ends with hit = true.
C26_LoopTerminates ==
    <>(/\ ddaPc = "done"
       /\ ddaRes.hit
       /\ dda.steps <= WORLD_SIZE + WORLD_SIZE)

\* A returned ray that crossed the grid without walls from corner to corner
\* and left it after width + height - 1 iterations.
C26_Witness ==
    /\ ddaPc = "done"
    /\ ddaGrid = EmptyGrid
    /\ LeftGrid
    /\ ddaRes.hit
    /\ dda.steps = WORLD_SIZE + WORLD_SIZE - 1

\* What RayCaster.dda_raycast returns for the arguments of the fast_dda call.
SameCallRaycast ==
    dda_raycast(dda.x, dda.y, dda.dx, dda.dy, ddaGrid, WORLD_SIZE, WORLD_SIZE)

\* C27: for every grid, every start position inside it and every direction,
\* dda_raycast and fast_dda return the same hit flag, side, map_x, map_y,
\* texture_id, distance and texture_x, also when the ray leaves the grid and
\* when it is axis-aligned.
C27_BothDDAsAgree ==
    ddaPc = "done" =>
        /\ SameCallRaycast.hit = ddaRes.hit
        /\ SameCallRaycast.side = ddaRes.side
        /\ SameCallRaycast.map_x = ddaRes.map_x
        /\ SameCallRaycast.map_y = ddaRes.map_y
        /\ SameCallRaycast.texture_id = ddaRes.texture_id
        /\ SameCallRaycast.distance = ddaRes.distance
        /\ SameCallRaycast.texture_x = ddaRes.texture_x
        /\ SameCallRaycast.err = ddaRes.err

\* An axis-aligned ray along the y axis that crossed at least two cells,
\* left the grid and was returned by both implementations with the default
\* texture id.
C27_Witness ==
    /\ ddaPc = "done"
    /\ dda.dx = 0
    /\ LeftGrid
    /\ dda.steps >= 2
    /\ ddaRes.texture_id = 1
    /\ SameCallRaycast.texture_id = 1
    /\ SameCallRaycast.hit

----------------------------------------------------------------------------
(* Properties of the sprite passes of one frame (Spec)                     *)

\* C29: in each frame every live sprite is submitted to the sprite pass, and
\* blitted, at most once, and the sprite blits of the whole frame are in
\* farthest-first order.
C29_EachSpriteOnceFarthestFirst ==
    \A j, k \in SpriteEvents :
        j < k =>
            /\ drawn[j].id # drawn[k].id
            /\ (drawn[j].blit /\ drawn[k].blit) =>
                  drawn[j].dist2 >= drawn[k].dist2

----------------------------------------------------------------------------
(* A player walking a grid: Player.update_movement called again and again  *)
(* (SpecMove)                                                              *)

\* The longest displacement of one call per axis, in 1/Q units.
MaxMove == 3
MoveSteps == (-MaxMove)..MaxMove
MoveGrids == {map_data, PillarGrid}

\* The cell that contains the corner coordinate c + sgn * PLAYER_RADIUS
\* (c in 1/Q units): its floor.
CornerInCell(c, sgn) ==
    (c * PLAYER_RADIUS[2] + sgn * PLAYER_RADIUS[1] * Q) \div (PLAYER_RADIUS[2] * Q)

\* All four corners of the bounding box around (x, y) lie in cells of the
\* grid that are empty.
CornersFree(x, y, world) ==
    \A sx \in {-1, 1}, sy \in {-1, 1} :
        LET cell == <<CornerInCell(x, sx), CornerInCell(y, sy)>>
        IN  InBounds(cell[1], cell[2], WORLD_SIZE, WORLD_SIZE) /\ world[cell] = 0

InitMove ==
    /\ frameIdle
    /\ ddaIdle
    /\ m7Idle
    /\ wallIdle
    /\ visIdle
    /\ mvPc = "play"
    /\ \E world \in MoveGrids, x \in 0..(WORLD_SIZE * Q), y \in 0..(WORLD_SIZE * Q) :
          /\ CornersFree(x, y, world)
          /\ mv = [x |-> x, y |-> y, world |-> world, old_x |-> x, old_y |-> y,
                   new_x |-> x, new_y |-> y]

\* Player.update_movement: step_x and step_y stand for move_x * move_speed
\* and move_y * move_speed, which the keys, the angle and delta_time of the
\* call determine; the rotation that follows does not touch the position.
UpdateMovement ==
    /\ mvPc = "play"
    /\ \E step_x \in MoveSteps, step_y \in MoveSteps :
          LET new_x == mv.x + step_x
              new_y == mv.y + step_y
              final == check_collision(mv.x, mv.y, new_x, new_y, mv.world)
          IN  mv' = [mv EXCEPT !.x = final[1], !.y = final[2],
                               !.old_x = mv.x, !.old_y = mv.y,
                               !.new_x = new_x, !.new_y = new_y]
    /\ UNCHANGED mvPc

NextMove ==
    \/ UpdateMovement /\ UNCHANGED <<frameVars, ddaVars, m7Vars, wallVars, visVars>>

SpecMove == InitMove /\ [][NextMove]_vars

\* The last call's move was refused on the X axis, on the Y axis.
BlockedX == ~can_move_to(mv.new_x, mv.old_y, mv.world)
BlockedY == ~can_move_to(mv.x, mv.new_y, mv.world)

\* C30: from a start whose four bounding-box corners lie in in-bounds empty
\* cells, on an unchanged grid, after any sequence of update_movement calls
\* all four corners still lie in in-bounds empty cells; a move blocked on
\* one axis leaves that coordinate unchanged while the other axis may move.
C30_CornersStayInEmptyCells ==
    mvPc = "play" =>
        /\ CornersFree(mv.x, mv.y, mv.world)
        /\ BlockedX => mv.x = mv.old_x
        /\ BlockedY => mv.y = mv.old_y
        /\ ~BlockedX => mv.x = mv.new_x
        /\ ~BlockedY => mv.y = mv.new_y

====
